---------------------------- MODULE Spec2Model ----------------------------
(***************************************************************************)
(* Model of crater_functions.py: the crater-shape deposition kernel        *)
(* (crater_depth), the drivers that call it (add_craters1), the inverse of *)
(* the production function (crater_production_function_inverse) and the    *)
(* crater size/time generator (generate_CSFD_from_production_function).    *)
(*                                                                         *)
(* Real numbers are binary fixed-point integers with FracBits fractional   *)
(* bits (S == 2^FracBits is 1.0).  A float that numpy turns into NaN is    *)
(* kept apart from the numbers: a value is a record [nan, v].              *)
(***************************************************************************)
EXTENDS Integers, Sequences, FiniteSets, TLC

VARIABLES
    z,          \* mg.at_node['topographic__elevation']: node -> value
    zs,         \* history: the field before each crater_depth call so far
    events,     \* history: the arguments of each crater_depth call so far
    err,        \* how the last crater_depth call ended ("none" or the exception)
    drawlog,    \* history: <<function, stream position>> of every random draw
    driver,     \* who calls crater_depth: "direct" | "add_craters1"
    ac_pos,     \* add_craters1: position of its local rn_gen
    ac_args,    \* add_craters1: its arguments [minD, maxD, rim]
    inv,        \* crater_production_function_inverse: its arguments and locals
    gen         \* generate_CSFD_from_production_function: arguments and locals

crater_vars == <<z, zs, events, err, drawlog, driver, ac_pos, ac_args>>

vars == <<crater_vars, inv, gen>>

(***************************************************************************)
(* Fixed-point arithmetic                                                  *)
(***************************************************************************)
FracBits == 2 * 4

S == 2 ^ FracBits

Abs(a) == IF a < 0 THEN -a ELSE a

\* a / b rounded to the nearest integer (b # 0), as float division rounds
RoundDiv(a, b) ==
    LET num == IF b < 0 THEN -a ELSE a
        den == Abs(b)
    IN  (num + den \div 2) \div den

\* the element of a one-element set: Only({e(x) : x \in {v}}) is e at the
\* value of v, computed once however often e uses x
Only(s) == CHOOSE x \in s : TRUE

RECURSIVE FloorLog2(_)
\* floor(log2(v)) for an integer v >= 1
FloorLog2(v) == IF v < 2 THEN 0 ELSE 1 + FloorLog2(v \div 2)

RECURSIVE Log2Frac(_, _, _)
\* the first nbits fractional bits of log2 of mant, a Q14 number in [1, 2),
\* by repeated squaring
Log2Frac(mant, bit, nbits) ==
    IF bit > nbits THEN 0
    ELSE Only({IF sq >= 2 ^ 15
               THEN 2 ^ (nbits - bit) + Log2Frac(sq \div 2, bit + 1, nbits)
               ELSE Log2Frac(sq, bit + 1, nbits) : sq \in {(mant * mant) \div 2 ^ 14}})

\* S * log2(v) for an integer v >= 1, rounded to the nearest
Log2Int(v) ==
    Only({LET k    == FloorLog2(w)
              mant == IF k >= 14 THEN w \div 2 ^ (k - 14) ELSE w * 2 ^ (14 - k)
          IN  k * S + RoundDiv(Log2Frac(mant, 1, FracBits + 2), 4) : w \in {v}})

\* S * log2(a / S) for a fixed-point a > 0
Log2Fx(a) == Log2Int(a) - FracBits * S

\* 2^(2^-i) in Q14, i = 1..10 (the first FracBits are used)
Exp2Table == <<23170, 19484, 17867, 17109, 16743, 16562, 16473, 16428, 16406, 16395>>

RECURSIVE Exp2Frac(_, _, _)
Exp2Frac(f, bit, acc) ==
    IF bit > FracBits THEN acc
    ELSE IF (f \div 2 ^ (FracBits - bit)) % 2 = 1
         THEN Exp2Frac(f, bit + 1, (acc * Exp2Table[bit]) \div 2 ^ 14)
         ELSE Exp2Frac(f, bit + 1, acc)

\* S * 2^(y / S) for a fixed-point y (negative too)
Exp2Fx(y) ==
    Only({LET k == w \div S
              f == w % S
              r == Exp2Frac(f, 1, 2 ^ 14)
              sh == k - (14 - FracBits)
          IN  IF sh >= 0 THEN r * 2 ^ sh
              ELSE IF sh < -30 THEN 0
              ELSE RoundDiv(r, 2 ^ (-sh)) : w \in {y}})

RECURSIVE ISqrtFrom(_, _)
ISqrtFrom(v, r) == IF r * r <= v THEN r ELSE ISqrtFrom(v, (r + v \div r) \div 2)

\* floor(sqrt(v)) for an integer v >= 0 (Newton iteration from above)
ISqrt(v) == IF v < 2 THEN v ELSE ISqrtFrom(v, 2 ^ (FloorLog2(v) \div 2 + 1))

(***************************************************************************)
(* float64 values with NaN                                                 *)
(***************************************************************************)
F(v) == [nan |-> FALSE, v |-> v]

NaN == [nan |-> TRUE, v |-> 0]

FAdd(a, b) == IF a.nan \/ b.nan THEN NaN ELSE F(a.v + b.v)

FSub(a, b) == IF a.nan \/ b.nan THEN NaN ELSE F(a.v - b.v)

FMul(a, b) == IF a.nan \/ b.nan THEN NaN ELSE F(RoundDiv(a.v * b.v, S))

\* 0/0 is NaN; x/0 with x # 0 (an infinity) is not modelled: no input reaches it
FDiv(a, b) ==
    IF a.nan \/ b.nan \/ b.v = 0 THEN NaN
    ELSE LET num == IF b.v < 0 THEN -a.v ELSE a.v
             den == Abs(b.v)
         IN  F((num \div den) * S + RoundDiv((num % den) * S, den))

\* numpy's a ** e on float64: NaN for a negative base and a fractional
\* exponent, 0 for 0 ** positive
FPow(a, e) ==
    IF a.nan \/ e.nan \/ a.v < 0 THEN NaN
    ELSE IF a.v = 0 THEN (IF e.v > 0 THEN F(0) ELSE IF e.v = 0 THEN F(S) ELSE NaN)
    ELSE F(Exp2Fx(RoundDiv(e.v * Log2Fx(a.v), S)))

\* np.min of two values: NaN if either is
FMin(a, b) == IF a.nan \/ b.nan THEN NaN ELSE IF a.v <= b.v THEN a ELSE b

\* a <= b on floats: False when either is NaN
FLe(a, b) == ~a.nan /\ ~b.nan /\ a.v <= b.v

FGt(a, b) == ~a.nan /\ ~b.nan /\ a.v > b.v

\* a decimal literal num/den of the source as a fixed-point value
Lit(num, den) == F(RoundDiv(num * S, den))

\* math.exp / np.exp of a fixed-point value
FExp(a) == IF a.nan THEN NaN ELSE F(Exp2Fx(RoundDiv(a.v * Log2Int(271828) - a.v * Log2Int(100000), S)))

(***************************************************************************)
(* The random source: np.random.default_rng(seed=seed)                     *)
(***************************************************************************)
seed == 3

\* The generator's output at a stream position, as a uniform in [0, 1): a
\* fixed function of (seed, position) standing for PCG64
Raw(sd, pos) == ((sd + 1) * 89 + pos * 151) % S

\* rn_gen.random() / rn_gen.uniform(0, 1) of a generator at position pos
Uniform(pos) == F(Raw(seed, pos))

\* the standard normal deviate the generator yields at pos (in [-2, 2))
Gauss(pos) == F(4 * Raw(seed, pos) - 2 * S)

\* rn_gen.lognormal(mean = 0, sigma = sigma)
Lognormal(sigma, pos) == FExp(FMul(sigma, Gauss(pos)))

\* rn_gen.integers(lo, hi, endpoint = True)
Integers1(lo, hi, pos) == lo + (Raw(seed, pos) * (hi - lo + 1)) \div S

(***************************************************************************)
(* The grid (landlab RasterModelGrid((xy, xy), xy_spacing = cell_size))    *)
(***************************************************************************)
GridN == 2

dx == 1000

MaxCraters == 2

Nodes == 0 .. (GridN * GridN - 1)

node_x(i) == (i % GridN) * dx

node_y(i) == (i \div GridN) * dx

\* mg.calc_distances_of_nodes_to_point(center), in grid units (m)
calc_distances_of_nodes_to_point(c) ==
    [i \in Nodes |->
        ISqrt((node_x(i) - c[1]) * (node_x(i) - c[1])
              + (node_y(i) - c[2]) * (node_y(i) - c[2]))]

\* make_noisy_surface(grid_size, cell_size, slope, rf): slope is slope/100
make_noisy_surface(slope, rf) ==
    [i \in Nodes |->
        FMul(FAdd(FSub(F(0), FDiv(FMul(F(node_x(i) * S), Lit(slope, 100)), F(rf * S))),
                  Uniform(i)),
             F(rf * S))]

(***************************************************************************)
(* crater_depth                                                            *)
(***************************************************************************)
ejecta_noise == Lit(5, 100)

\* an inheritance parameter inside the documented range 0.5 .. 1.0 other
\* than the source's 1
I_half == Lit(1, 2)

I == F(S)

RECURSIVE SumOver(_, _, _)
\* sum of field[i] over the nodes i < upto that are in idx
SumOver(field, idx, upto) ==
    IF upto = 0 THEN F(0)
    ELSE IF (upto - 1) \in idx
         THEN FAdd(SumOver(field, idx, upto - 1), field[upto - 1])
         ELSE SumOver(field, idx, upto - 1)

\* np.average(field[idx]): NaN (with a RuntimeWarning) for an empty idx
Average(field, idx) ==
    FDiv(SumOver(field, idx, GridN * GridN), F(Cardinality(idx) * S))

\* lines 130-145: the shape parameters of a crater of diameter diam (m)
ShapeParams(diam) ==
    LET simple == FLe(diam, F(7000 * S))
        H1 == IF simple THEN FMul(Lit(254, 100), FPow(diam, Lit(67, 100)))
                        ELSE FMul(Lit(1220, 100), FPow(diam, Lit(49, 100)))
        H2 == IF simple THEN FMul(Lit(193, 100), FPow(diam, Lit(52, 100)))
                        ELSE FMul(Lit(79, 100), FPow(diam, Lit(6, 10)))
        m  == IF simple THEN FMul(Lit(73, 100), FPow(diam, Lit(11, 100)))
                        ELSE FMul(Lit(64, 100), FPow(diam, Lit(13, 100)))
        H2H1 == FSub(H2, H1)
        n  == FSub(F(2 * S),
                   FDiv(H2, FAdd(FDiv(H2H1, F(2 * S)), FDiv(H1, FAdd(m, F(2 * S))))))
    IN  [H1 |-> H1, H2 |-> H2, m |-> m, H2H1 |-> H2H1, n |-> n]

\* lines 148-150: Z_noise drawn from a generator at position pos
ZNoise(pos) ==
    LET e1     == FExp(F(S))
        noise1 == FDiv(ejecta_noise, FPow(FSub(FMul(e1, e1), F(S)), Lit(1, 2)))
        noise2 == FMul(FSub(F(S), FMul(Lit(1, 2), noise1)), noise1)
    IN  Lognormal(noise2, pos)

Neg(a) == FSub(F(0), a)

\* the rimless branch splitting the nodes at the radius, like the rimmed one
InsideLimit_radius(radius, rim) == radius

\* the boundary of the inside set: radius (rim) or radius * 0.9 (no rim)
InsideLimit(radius, rim) == IF rim THEN radius ELSE FMul(radius, Lit(9, 10))

\* lines 168-169 / 194-195: the value added to an inside node
DE_in(p, dist, diam, radius, Zi, Z_noise, rim) ==
    LET shape == FPow(FDiv(F(2 * dist * S), diam), p.m)
        DH_in == IF rim THEN FAdd(p.H2H1, FMul(FMul(Z_noise, p.H1), shape))
                        ELSE FAdd(p.H2H1, FMul(p.H1, shape))
        E_ref_in == Zi
        r == FDiv(F(dist * S), radius)
    IN  FAdd(DH_in, FMul(FMul(F(S), FSub(E_ref_in, Zi)),
                         FSub(F(S), FMul(I, FMul(r, r)))))

\* lines 165, 173-178: the value added to an outside node (rim = True)
DE_out(p, dist, diam, radius, Zo, avgin, avgout) ==
    LET E_ref_out == FAdd(avgin, FMul(avgout, FPow(FDiv(F(dist * S), radius), Neg(p.n))))
        DH_out == FMul(p.H2, FPow(FDiv(F(2 * dist * S), diam), Neg(p.n)))
        Gi == FMin(FSub(F(S), I), FDiv(DH_out, p.H2))
    IN  FAdd(DH_out, FMul(Gi, FSub(E_ref_out, Zo)))

\* lines 156 / 182: the nodes with d <= limit
in_idx(d, limit) == {i \in Nodes : FLe(F(d[i] * S), limit)}

\* the outside set taking the nodes at the limit too
out_idx_closed(d, limit) == {i \in Nodes : FLe(limit, F(d[i] * S))}

\* lines 157 / 185: the nodes with d > limit
out_idx(d, limit) == {i \in Nodes : FGt(F(d[i] * S), limit)}

\* crater_depth(mg, d, diameter, rim) for a diameter Python's float power
\* accepts (a float64 diameter, or a positive one): the new field.  Z_in,
\* Z_out and the averages are copies taken of mg (lines 160-163); line 170
\* adds DE_in in place at the inside nodes (mg_in) and line 179 then adds
\* DE_out in place at the outside nodes
CraterField(mg, d, diameter, rim, pos) ==
    LET diam    == F(diameter * 1000 * S)
        radius  == FDiv(diam, F(2 * S))
        p       == ShapeParams(diam)
        Z_noise == ZNoise(pos)
        limit   == InsideLimit(radius, rim)
        avgin   == Average(mg, in_idx(d, limit))
        avgout  == Average(mg, out_idx(d, limit))
        mg_in   == [i \in Nodes |->
                      IF i \in in_idx(d, limit)
                      THEN FAdd(mg[i], DE_in(p, d[i], diam, radius, mg[i], Z_noise, rim))
                      ELSE mg[i]]
    IN  [i \in Nodes |->
            IF i \in out_idx(d, limit)
            THEN (IF rim
                  THEN FAdd(mg_in[i], DE_out(p, d[i], diam, radius, mg[i], avgin, avgout))
                  ELSE FAdd(mg_in[i], F(0)))
            ELSE mg_in[i]]

\* How a call ends.  A Python int/float diameter ("py"): 0 ** 0.67 = 0.0 makes
\* line 145 divide 0.0 by 0.0 (ZeroDivisionError); a negative one makes
\* diameter ** 0.67 complex, and the in-place add of a complex array to the
\* float64 field (line 170 / 196) raises numpy's UFuncTypeError before any
\* node is written.  A numpy float64 diameter ("np") raises nothing.
CraterError(diameter, dtype) ==
    IF dtype = "py" /\ diameter = 0 THEN "ZeroDivisionError"
    ELSE IF dtype = "py" /\ diameter < 0 THEN "UFuncTypeError"
    ELSE "none"

\* the whole call: the field afterwards, how it ended, whether line 150 drew
crater_depth(mg, d, diameter, rim, dtype) ==
    LET e == CraterError(diameter, dtype)
    IN  [mg   |-> IF e = "none" THEN CraterField(mg, d, diameter, rim, 0) ELSE mg,
         err  |-> e,
         drew |-> e # "ZeroDivisionError"]


(***************************************************************************)
(* crater_production_function_inverse                                      *)
(*                                                                         *)
(* Diameters are fixed-point km, cumulative values N are integers in units *)
(* of 2^-NBits, and the log10 values x, y are fixed-point.  10.0 ** x,     *)
(* pf.evaluate and np.log10 each round their result, as the float64 ones   *)
(* do; the model's rounding step is to tol what the float64 one is to the  *)
(* source's tol = 1e-6: below it.                                          *)
(***************************************************************************)
NBits == 4 * 5

\* S * log2(10)
L10 == Log2Fx(10 * S)

\* np.log10 of a fixed-point diameter
Log10Fx(a) == RoundDiv(Log2Fx(a) * S, L10)

\* np.log10 of a cumulative value
Log10N(nv) == RoundDiv((Log2Int(nv) - NBits * S) * S, L10)

\* 10.0 ** x, a fixed-point diameter
Pow10Fx(x) == Exp2Fx(RoundDiv(x * L10, S))

\* a cumulative value from its fixed-point log2
NFromLog2(e) == Exp2Fx(e + (NBits - FracBits) * S)

\* pf.evaluate("cumulative", D) of the production functions tried: the power
\* law N = D^-2; a curve that steepens with D, log10 N = -2 x - x^2 / 2 with
\* x = log10 D, as the polynomials of craterstats do; and a strictly
\* decreasing N with a drop by a factor 4 at D = 2 km
Cumulative(pf, D) ==
    CASE pf = "power" -> NFromLog2(-2 * Log2Fx(D))
      [] pf = "curve" ->
            Only({NFromLog2(RoundDiv((-2 * x - RoundDiv(x * x, 2 * S)) * L10, S)) :
                  x \in {Log10Fx(D)}})
      [] pf = "step"  ->
            NFromLog2(-2 * Log2Fx(D) - (IF D >= 2 * S THEN 2 * S ELSE 0))

\* np.log10(pf.evaluate("cumulative", 10.0 ** x)), lines 243 and 245
LogCumulative(pf, x) == Log10N(Cumulative(pf, Pow10Fx(x)))

\* the tolerance of line 212 (tol, there 1e-6 in log10), here in units of
\* 1 / S and above the rounding error of the fixed-point log10
tol == 4

divisions == 9

\* np.linspace(start, stop, divisions)[i]
Linspace(start, stop, i) == start + RoundDiv(i * (stop - start), divisions - 1)

RECURSIVE BisectLeft(_, _, _, _)
\* np.searchsorted(a, v): binary search for the first index with a[i] >= v
BisectLeft(a, v, lo, hi) ==
    IF lo >= hi THEN lo
    ELSE Only({IF a[mid] < v THEN BisectLeft(a, v, mid + 1, hi)
                              ELSE BisectLeft(a, v, lo, mid) :
               mid \in {lo + (hi - lo) \div 2}})

RECURSIVE BisectRight(_, _, _, _)
\* binary search for the first index with a[i] > v
BisectRight(a, v, lo, hi) ==
    IF lo >= hi THEN lo
    ELSE Only({IF v >= a[mid] THEN BisectRight(a, v, mid + 1, hi)
                               ELSE BisectRight(a, v, lo, mid) :
               mid \in {lo + (hi - lo) \div 2}})

\* np.interp(v, xp, fp) for one v: fp's ends outside xp, fp[j] at a sample,
\* else the line through the samples j, j + 1 around v
Interp(v, xp, fp) ==
    IF v > xp[divisions - 1] THEN fp[divisions - 1]
    ELSE IF v < xp[0] THEN fp[0]
    ELSE Only({IF j = divisions - 1 \/ xp[j] = v \/ xp[j + 1] = xp[j] THEN fp[j]
               ELSE LET slope == RoundDiv((fp[j + 1] - fp[j]) * S * S, xp[j + 1] - xp[j])
                    IN  RoundDiv(slope * (v - xp[j]), S * S) + fp[j] :
               j \in {BisectRight(xp, v, 0, divisions) - 1}})

\* the loop's exit test without the iteration cap
LoopExit_nocap(diff, count) == diff < tol

\* line 250: abs(y1 - log_y) < tol or count > 99
LoopExit(diff, count) == diff < tol \/ count > 99

\* the new bracket taking its samples in the other order
Bracket_swapped(x0, q) == <<x0[IF q = 0 THEN divisions - 1 ELSE q - 1], x0[q]>>

\* line 248: xrange = x0[[q, q - 1]]; index -1 is the last sample
Bracket(x0, q) == <<x0[q], x0[IF q = 0 THEN divisions - 1 ELSE q - 1]>>

\* lines 248-251 on the locals c: the new bracket (an IndexError when q is
\* past the last sample), the count and the exit test
InvUpdate(c, x0, x, y1, q) ==
    IF q > divisions - 1
    THEN [c EXCEPT !.x = x, !.y1 = y1, !.q = q, !.pc = "IndexError"]
    ELSE [c EXCEPT !.x = x, !.y1 = y1, !.q = q,
                   !.xrange = Bracket(x0, q),
                   !.count = c.count + 1,
                   !.pc = IF LoopExit(Abs(y1 - c.log_y), c.count + 1)
                          THEN "return" ELSE "loop",
                   !.ret = IF LoopExit(Abs(y1 - c.log_y), c.count + 1)
                           THEN Pow10Fx(x) ELSE 0]

\* one iteration of the loop, lines 242-251, on the locals c; read from the
\* last line up: x0 (line 242), y0 (243), x (244) and q (246), y1 (245)
InvStep(c) ==
    Only({Only({Only({Only({InvUpdate(c, x0, x, y1, q) :
                            y1 \in {LogCumulative(c.pf, x)}}) :
                      x \in {Interp(c.log_y, y0, x0)},
                      q \in {BisectLeft(y0, c.log_y, 0, divisions)}}) :
                y0 \in {[i \in 0 .. divisions - 1 |-> LogCumulative(c.pf, x0[i])]}}) :
          x0 \in {[i \in 0 .. divisions - 1 |-> Linspace(c.xrange[2], c.xrange[1], i)]}})

\* lines 235-239: the locals before the first iteration; D is the diameter
\* whose cumulative value y is (0 when y is not one)
InvStart(pf, irange, y, D) ==
    [pf |-> pf, irange |-> irange, y |-> y, D |-> D,
     log_y |-> Log10N(y),
     xrange |-> <<Log10Fx(irange[1]), Log10Fx(irange[2])>>,
     count |-> 0, x |-> 0, y1 |-> 0, q |-> 0, pc |-> "loop", ret |-> 0]

InvIdle == InvStart("power", <<S, S>>, 1, 0)

RECURSIVE InvRun(_)
\* the call to its end
InvRun(c) == IF c.pc = "loop" THEN Only({InvRun(n) : n \in {InvStep(c)}}) ELSE c

\* crater_production_function_inverse(pf, irange, y)
crater_production_function_inverse(pf, irange, y) == InvRun(InvStart(pf, irange, y, 0))


(***************************************************************************)
(* generate_CSFD_from_production_function                                  *)
(*                                                                         *)
(* Times are fixed-point Ga.  A time is [k, v]: a number v (k = "num"),    *)
(* +inf, -inf or NaN, which float64 division by 0.0 and -log(0.0) yield.   *)
(***************************************************************************)
MaxIter == 8

\* t is tracked down to TFloor; a t below it is kept there (dt < 0 for ever
\* once lam < 0, so the loop condition holds below TFloor as it does at it)
TFloor == -S

T(v) == [k |-> "num", v |-> IF v < TFloor THEN TFloor ELSE v]

TInf  == [k |-> "inf", v |-> 0]

TNInf == [k |-> "ninf", v |-> 0]

TNaN  == [k |-> "nan", v |-> 0]

\* t + dt on float64
TAdd(t, dt) ==
    IF t.k = "nan" \/ dt.k = "nan" THEN TNaN
    ELSE IF t.k = "num" /\ dt.k = "num" THEN T(t.v + dt.v)
    ELSE IF t.k = "num" THEN dt
    ELSE IF dt.k = "num" \/ dt.k = t.k THEN t
    ELSE TNaN

\* production_function.range of the production function used (km)
pf_range == <<S \div 4, 16 * S>>

\* chronology_function.phi(t), the crater flux at t: a constant plus an
\* exponential in t, as the chronology functions of craterstats are
phi(t) == IF t.k = "num" THEN S + Exp2Fx(t.v) ELSE S

\* line 328: lam = phi * N1_ratio * Area
Lambda(t, N1_ratio, Area) == RoundDiv(phi(t) * N1_ratio, S) * Area

\* -np.log(u), fixed-point, for u > 0
NegLog(u) == RoundDiv(-Log2Fx(u) * S, Log2Int(271828) - Log2Int(100000))

\* a positive interval len / lam: at least the smallest positive number
Quot(len, lam) ==
    Only({IF lam > 0 THEN T(IF qv = 0 THEN 1 ELSE qv) ELSE T(-(IF qv = 0 THEN 1 ELSE qv)) :
          qv \in {RoundDiv(len * S, Abs(lam))}})

\* the interval drawn as a Poisson one whatever poisson_intervals says
Interarrival_poisson(poisson_intervals, u, lam) ==
    IF u = 0 THEN (IF lam >= 0 THEN TInf ELSE TNInf)
    ELSE IF lam = 0 THEN TInf
    ELSE Quot(NegLog(u), lam)

\* lines 329-333: dt = -np.log(u) / lam, or 1.0 / lam; a float64 lam of 0.0
\* divides to inf (with a RuntimeWarning)
Interarrival(poisson_intervals, u, lam) ==
    IF poisson_intervals
    THEN (IF u = 0 THEN (IF lam >= 0 THEN TInf ELSE TNInf)
          ELSE IF lam = 0 THEN TInf
          ELSE Quot(NegLog(u), lam))
    ELSE (IF lam = 0 THEN TInf ELSE Quot(S, lam))

\* the loop condition with a strict comparison
LoopCond_strict(t, time_interval) == t.k = "ninf" \/ (t.k = "num" /\ t.v < time_interval[1])

\* line 320: t <= time_interval[0]
LoopCond(t, time_interval) == t.k = "ninf" \/ (t.k = "num" /\ t.v <= time_interval[1])

\* lines 303-304: the diameter range (size_interval None: cell size to the
\* largest calibrated diameter)
DiameterRange(size_interval, cell_size) ==
    IF size_interval = <<>> THEN <<cell_size, pf_range[2]>> ELSE size_interval

\* lines 289-317: the locals before the loop; the production function is
\* "Mars, Ivanov (2001)", here the curve
GenStart(time_interval, size_interval, domain_area, cell_size, poisson_intervals) ==
    LET diameter_range == DiameterRange(size_interval, cell_size)
        N == <<Cumulative("curve", S), Cumulative("curve", diameter_range[1]),
               Cumulative("curve", diameter_range[2])>>
    IN  [time_interval |-> time_interval, diameter_range |-> diameter_range,
         Area |-> domain_area, poisson_intervals |-> poisson_intervals,
         warned |-> size_interval # <<>>
                    /\ (diameter_range[1] < pf_range[1] \/ diameter_range[2] > pf_range[2]),
         N |-> N, N1_ratio |-> RoundDiv(N[2] * S, N[1]),
         t |-> T(time_interval[2]), i |-> 0, list_d |-> <<>>, times |-> <<>>,
         pos |-> 0, pc |-> "loop"]

GenIdle == [GenStart(<<0, 0>>, <<S, S>>, 0, S, FALSE) EXCEPT !.pc = "idle"]

\* a list of at most MaxIter entries: the model keeps the first MaxIter
Keep(list, e) == IF Len(list) < MaxIter THEN Append(list, e) ELSE list

\* one pass of the loop body, lines 321-339
GenStep(g) ==
    LET u   == Raw(seed, g.pos)
        y   == RoundDiv(u * (g.N[2] - g.N[3]), S) + g.N[3]
        lam == Lambda(g.t, g.N1_ratio, g.Area)
        u2  == Raw(seed, (g.pos + 1) % S)
    IN  Only({IF r.pc = "IndexError"
              THEN [g EXCEPT !.pc = "IndexError", !.pos = (g.pos + 1) % S]
              ELSE [g EXCEPT !.list_d = Keep(g.list_d, r.ret),
                             !.times = Keep(g.times, g.t),
                             !.t = TAdd(g.t, dt),
                             !.i = IF g.i < MaxIter THEN g.i + 1 ELSE g.i,
                             !.pos = (g.pos + (IF g.poisson_intervals THEN 2 ELSE 1)) % S] :
              r \in {crater_production_function_inverse("curve", g.diameter_range, y)},
              dt \in {Interarrival(g.poisson_intervals, u2, lam)}})

(***************************************************************************)
(* weights and add_craters1                                                *)
(***************************************************************************)
RECURSIVE WeightSum(_, _)
\* sum(weights) with weights = [Kx * D ** -delta for D in range(minD, maxD)]
WeightSum(minD, maxD) ==
    IF minD >= maxD THEN F(0)
    ELSE FAdd(FMul(F(S), FPow(F(minD * S), F(-2 * S))), WeightSum(minD + 1, maxD))

RECURSIVE WeightPick(_, _, _, _)
\* lines 49-52: the first index at which rnd, less the weights so far, is < 0
\* (-1 stands for falling off the loop, which returns None)
WeightPick(rnd, D, maxD, i) ==
    IF D >= maxD THEN -1
    ELSE LET left == FSub(rnd, FMul(F(S), FPow(F(D * S), F(-2 * S))))
         IN  IF left.v < 0 THEN i ELSE WeightPick(left, D + 1, maxD, i + 1)

\* weights(minD, maxD), drawing from its own generator at position pos
weights(minD, maxD, pos) ==
    WeightPick(FMul(Uniform(pos), WeightSum(minD, maxD)), minD, maxD, 0)

(***************************************************************************)
(* The crater specification: a grid and a sequence of crater_depth calls,  *)
(* made directly (central_crater, a user) or by add_craters1.              *)
(***************************************************************************)
\* The arguments of the direct calls, <<centre, diameter (km), type of the
\* diameter argument>>: a centre on a node, between the nodes and outside the
\* grid; craters that hold one node, some, all or none of them; and the
\* diameters that are not positive, as a Python number ("py", from
\* central_crater or add_craters1) and as a float64 ("np", as add_craters2
\* passes on from the generator)
CallInputs ==
    {<<c, 1, "py">> : c \in {<<0, 0>>, <<500, 500>>, <<-3000, 0>>}}
    \cup {<<c, 8, "py">> : c \in {<<0, 0>>, <<-3000, 0>>}}
    \cup {<<<<0, 0>>, di[1], di[2]>> :
             di \in {<<2, "py">>, <<0, "py">>, <<-1, "py">>, <<-1, "np">>}}

Event(d, diameter, rim, dtype) ==
    [d |-> d, diameter |-> diameter, rim |-> rim, dtype |-> dtype]

Init ==
    /\ z \in {make_noisy_surface(0, 1), make_noisy_surface(10, 1)}
    /\ zs = <<>>
    /\ events = <<>>
    /\ err = "none"
    /\ drawlog = <<>>
    /\ ac_pos = 0
    /\ inv = InvIdle
    /\ gen = GenIdle
    /\ \/ driver = "direct" /\ ac_args = [minD |-> 0, maxD |-> 0, rim |-> TRUE]
       \/ /\ driver = "add_craters1"
          /\ ac_args \in {[minD |-> 1, maxD |-> 3, rim |-> r] : r \in BOOLEAN}

\* one crater_depth call: line 150 draws from a generator line 121 has just
\* seeded, so at position 0
Apply(d, diameter, rim, dtype, log) ==
    LET r == crater_depth(z, d, diameter, rim, dtype)
    IN  /\ z' = r.mg
        /\ err' = r.err
        /\ zs' = Append(zs, z)
        /\ events' = Append(events, Event(d, diameter, rim, dtype))
        /\ drawlog' = IF r.drew THEN log \o <<<<"crater_depth", 0>>>> ELSE log

CallCraterDepth ==
    /\ driver = "direct"
    /\ Len(events) < MaxCraters
    /\ \E in \in CallInputs, rim \in BOOLEAN :
          Apply(calc_distances_of_nodes_to_point(in[1]), in[2], rim, in[3], drawlog)
    /\ UNCHANGED <<driver, ac_pos, ac_args, inv, gen>>

\* one iteration of add_craters1's loop (lines 380-386); its own generator
\* (line 373) is seeded once per add_craters1 call and advances by ac_pos
AddCraters1Iter ==
    /\ driver = "add_craters1"
    /\ Len(events) < MaxCraters
    /\ LET a            == weights(ac_args.minD, ac_args.maxD, 0)
           diameter     == ac_args.minD + a
           grid_size    == dx * GridN
           cratercenter == <<Integers1(1, grid_size, ac_pos),
                             Integers1(1, grid_size, ac_pos + 1)>>
           d            == calc_distances_of_nodes_to_point(cratercenter)
       IN  Apply(d, diameter, ac_args.rim, "py",
                 drawlog \o <<<<"weights", 0>>, <<"add_craters1", ac_pos>>,
                              <<"add_craters1", ac_pos + 1>>>>)
    /\ ac_pos' = ac_pos + 2
    /\ UNCHANGED <<driver, ac_args, inv, gen>>

Next == CallCraterDepth \/ AddCraters1Iter

Spec == Init /\ [][Next]_vars


(***************************************************************************)
(* The inverter specification: one call of the inverse, an iteration of    *)
(* its loop per step                                                       *)
(***************************************************************************)
Samples == 6

PFs == {"power", "curve", "step"}

\* the diameter ranges tried (km, fixed-point): 1 .. 16 and 1.33 .. 5.31
Ranges == {<<S, 16 * S>>, <<340, 1360>>}

\* diameters spread over a range, both ends included
SampleDiameters(ir) == {ir[1] + (k * (ir[2] - ir[1])) \div Samples : k \in 0 .. Samples}

\* targets that are no pf.evaluate(D) of a diameter tried: the middle of the
\* cumulative range, as the generator draws it, a value above the range, and
\* twice the value at 2 km (for the step function a value inside its jump,
\* which no diameter attains)
OtherTargets(pf, ir) ==
    {(Cumulative(pf, ir[1]) + Cumulative(pf, ir[2])) \div 2, 2 * Cumulative(pf, ir[1]),
     2 * Cumulative(pf, 2 * S)}

CraterIdle ==
    /\ z = [i \in Nodes |-> F(0)]
    /\ zs = <<>>
    /\ events = <<>>
    /\ err = "none"
    /\ drawlog = <<>>
    /\ driver = "idle"
    /\ ac_pos = 0
    /\ ac_args = [minD |-> 0, maxD |-> 0, rim |-> TRUE]

InitInv ==
    /\ CraterIdle
    /\ gen = GenIdle
    /\ \E pf \in PFs, ir \in Ranges :
          \/ \E D \in SampleDiameters(ir) : inv = InvStart(pf, ir, Cumulative(pf, D), D)
          \/ \E y \in OtherTargets(pf, ir) : inv = InvStart(pf, ir, y, 0)

InvIterate ==
    /\ inv.pc = "loop"
    /\ inv' = InvStep(inv)
    /\ UNCHANGED <<crater_vars, gen>>

NextInv == InvIterate

SpecInv == InitInv /\ [][NextInv]_vars

(***************************************************************************)
(* The generator specification: one call of                                *)
(* generate_CSFD_from_production_function, a pass of its loop per step     *)
(***************************************************************************)
\* [start, end] in Ga: a zero-width interval and a quarter of a Ga
TimeIntervals == {<<(9 * S) \div 2, (9 * S) \div 2>>, <<(13 * S) \div 4, 3 * S>>}

SizeIntervals == {<<>>, <<340, 1360>>}

Areas == {-1, 0, 1, 2}

InitGen ==
    /\ CraterIdle
    /\ inv = InvIdle
    /\ \E ti \in TimeIntervals, si \in SizeIntervals, a \in Areas, p \in BOOLEAN :
          gen = GenStart(ti, si, a, S, p)

GenIterate ==
    /\ gen.pc = "loop"
    /\ LoopCond(gen.t, gen.time_interval)
    /\ gen' = GenStep(gen)
    /\ UNCHANGED <<crater_vars, inv>>

GenReturn ==
    /\ gen.pc = "loop"
    /\ ~LoopCond(gen.t, gen.time_interval)
    /\ gen' = [gen EXCEPT !.pc = "return"]
    /\ UNCHANGED <<crater_vars, inv>>

NextGen == GenIterate \/ GenReturn

SpecGen == InitGen /\ [][NextGen]_vars

\* the interpreter runs the loop on: no pass and no return is ever put off
FairSpecGen == SpecGen /\ WF_vars(GenIterate) /\ WF_vars(GenReturn)

(***************************************************************************)
(* Claims about crater_depth and the random source                         *)
(***************************************************************************)
Called == Len(events) > 0

LastEvent == events[Len(events)]

\* the field the last call was given
Before == zs[Len(zs)]

Finite(field) == \A i \in Nodes : ~field[i].nan

\* the nodes with distance <= radius, radius = diameter * 1000 / 2
InsideSet(ev) == {i \in Nodes : 2 * ev.d[i] <= 1000 * ev.diameter}

\* C1: a call with rim = False leaves every node whose distance is greater
\* than 0.9 * radius (20 * d > 9 * 1000 * diameter) exactly as it was
C1_NoRimFrame ==
    (Called /\ ~LastEvent.rim) =>
        \A i \in Nodes :
            20 * LastEvent.d[i] > 9 * 1000 * LastEvent.diameter => z[i] = Before[i]

\* C1's case: a rimless crater that excavated a node and left another alone
C1_Witness ==
    /\ Called /\ ~LastEvent.rim /\ LastEvent.diameter > 0 /\ err = "none"
    /\ \E i \in Nodes : 20 * LastEvent.d[i] > 9 * 1000 * LastEvent.diameter
    /\ \E i \in Nodes : z[i] # Before[i]

\* C3: a call with a zero or negative diameter ends in InvalidParameter and
\* the field is what it was before the call
C3_InvalidParameter ==
    (Called /\ LastEvent.diameter <= 0) =>
        (err = "InvalidParameter" /\ z = Before)

\* the ejecta a rimmed crater lays on node i: H2 * (2 d / diameter) ** -n
Ejecta(ev, i) ==
    LET diam == F(ev.diameter * 1000 * S)
        p    == ShapeParams(diam)
    IN  FMul(p.H2, FPow(FDiv(F(2 * ev.d[i] * S), diam), Neg(p.n)))

\* C4: a rimmed crater of positive diameter on a finite field, whatever its
\* centre and even with no node inside it, ends without failure and leaves
\* every node finite; with an empty inside set every node is its prior
\* elevation plus its own ejecta
C4_EmptyInsideSafe ==
    (Called /\ LastEvent.rim /\ LastEvent.diameter > 0 /\ Finite(Before)) =>
        /\ err = "none"
        /\ Finite(z)
        /\ InsideSet(LastEvent) = {} =>
              \A i \in Nodes : z[i] = FAdd(Before[i], Ejecta(LastEvent, i))

\* C7: every draw comes from one stream that is never re-seeded, so no two
\* draws of a run are made at the same stream position
C7_OneStream ==
    \A i, j \in DOMAIN drawlog : i < j => drawlog[i][2] < drawlog[j][2]

\* the last two calls, both of positive diameter with a node inside
TwoCraters ==
    /\ Len(events) >= 2
    /\ \A k \in {Len(events) - 1, Len(events)} :
          events[k].diameter > 0 /\ InsideSet(events[k]) # {}

Converged == Abs(inv.y1 - inv.log_y) < tol

C10_RoundTrip ==
    (inv.D > 0 /\ inv.pc # "loop")
        => /\ inv.pc = "return"
           /\ Abs(Log10N(Cumulative(inv.pf, inv.ret)) - inv.log_y) < tol

(***************************************************************************)
(* Claims about generate_CSFD_from_production_function                     *)
(***************************************************************************)
ZeroWidth == gen.time_interval[1] = gen.time_interval[2]

\* the rate at the first pass of the loop
FirstRate == Lambda(T(gen.time_interval[2]), gen.N1_ratio, gen.Area)

\* the rate is positive at every event time so far
PositiveRate == FirstRate > 0 /\ \A k \in DOMAIN gen.times : Lambda(gen.times[k], gen.N1_ratio, gen.Area) > 0

\* C2 as stated: a call with a zero-width time interval returns an empty
\* diameter sequence
C2_EmptySequence == (gen.pc = "return" /\ ZeroWidth) => gen.list_d = <<>>

\* C2, amended: with a zero-width time interval and a positive rate the loop
\* body is executed exactly once (t = time_interval[1] passes the test
\* t <= time_interval[0]) and the call returns exactly one diameter
C2_OneDiameter ==
    (gen.pc \in {"loop", "return"} /\ ZeroWidth /\ FirstRate > 0)
        => /\ gen.i <= 1 /\ Len(gen.list_d) = gen.i
           /\ gen.pc = "return" => gen.i = 1
           /\ gen.i = 1 => ~LoopCond(gen.t, gen.time_interval)

\* a returned call on a zero-width interval with a positive rate
C2_Witness == gen.pc = "return" /\ ZeroWidth /\ FirstRate > 0 /\ Len(gen.list_d) = 1

\* C5: every call terminates, by a return or by an error raised when the
\* rate is not positive
C5_Terminates == <>(gen.pc # "loop")

\* C9: with poisson_intervals False and a positive rate, the event times
\* start at time_interval[1], are strictly increasing, lie within the time
\* interval, one per appended diameter, and each is the one before plus
\* 1 / lam, whatever the generator draws
C9_MeanIntervalTimes ==
    (~gen.poisson_intervals /\ PositiveRate /\ gen.pc # "idle")
        => /\ Len(gen.times) = Len(gen.list_d)
           /\ gen.times # <<>> => gen.times[1] = T(gen.time_interval[2])
           /\ \A k \in DOMAIN gen.times :
                 /\ gen.times[k].k = "num"
                 /\ gen.time_interval[2] <= gen.times[k].v
                 /\ gen.times[k].v <= gen.time_interval[1]
                 /\ LET nxt == TAdd(gen.times[k],
                                    Quot(S, Lambda(gen.times[k], gen.N1_ratio, gen.Area)))
                    IN  /\ nxt.v > gen.times[k].v
                        /\ k < Len(gen.times) => gen.times[k + 1] = nxt
                        /\ (k = Len(gen.times) /\ gen.pc # "IndexError") => gen.t = nxt

\* a returned call with mean intervals and several events
C9_Witness ==
    /\ ~gen.poisson_intervals /\ PositiveRate
    /\ gen.pc = "return" /\ Len(gen.times) >= 3

\* the target lies within the cumulative values of the range, ends included
InRangeTarget ==
    /\ Cumulative(inv.pf, inv.irange[2]) <= inv.y
    /\ inv.y <= Cumulative(inv.pf, inv.irange[1])

\* C11: for a target with N(max) <= y <= N(min), every iteration finds
\* 1 <= q <= 8 and raises nothing, and its new bracket x0[[q, q - 1]] is two
\* adjacent samples that keep the orientation of the bracket before, lie
\* inside it, and whose cumulative values have the target between them
C11_AdjacentBracket ==
    [][(inv.pc = "loop" /\ InRangeTarget) =>
          /\ inv'.pc # "IndexError"
          /\ inv'.q \in 1 .. divisions - 1
          /\ inv'.xrange = <<Linspace(inv.xrange[2], inv.xrange[1], inv'.q),
                             Linspace(inv.xrange[2], inv.xrange[1], inv'.q - 1)>>
          /\ inv.xrange[1] <= inv'.xrange[1]
          /\ inv'.xrange[1] <= inv'.xrange[2]
          /\ inv'.xrange[2] <= inv.xrange[2]
          /\ LogCumulative(inv.pf, inv'.xrange[2]) < inv.log_y
          /\ inv.log_y <= LogCumulative(inv.pf, inv'.xrange[1])]_vars

(***************************************************************************)
(* Claims about the node sets and the additive update of crater_depth      *)
(***************************************************************************)
\* radius = diameter * 1000 / 2 of the event ev, in m
Radius(ev) == FDiv(F(ev.diameter * 1000 * S), F(2 * S))

\* the delta of node i in a rimmed crater ev on the field mg, its reference
\* values Z_in, Z_out, avgin, avgout all taken from mg
Delta(ev, mg, i) ==
    LET diam == F(ev.diameter * 1000 * S)
        p    == ShapeParams(diam)
    IN  IF i \in in_idx(ev.d, Radius(ev))
        THEN DE_in(p, ev.d[i], diam, Radius(ev), mg[i], ZNoise(0), TRUE)
        ELSE DE_out(p, ev.d[i], diam, Radius(ev), mg[i],
                    Average(mg, in_idx(ev.d, Radius(ev))),
                    Average(mg, out_idx(ev.d, Radius(ev))))

\* C12: the field has one elevation per node before and after every call;
\* in a rimmed call that returns, the inside set (d <= radius) and the
\* outside set (d > radius) partition the nodes, and every node ends at its
\* pre-crater elevation plus one delta computed from the pre-crater field
C12_PartitionAdditive ==
    /\ DOMAIN z = Nodes
    /\ Cardinality(DOMAIN z) = GridN * GridN
    /\ \A k \in DOMAIN zs : DOMAIN zs[k] = Nodes
    /\ (Called /\ LastEvent.rim /\ err = "none") =>
          /\ in_idx(LastEvent.d, Radius(LastEvent))
                \cup out_idx(LastEvent.d, Radius(LastEvent)) = Nodes
          /\ in_idx(LastEvent.d, Radius(LastEvent))
                \cap out_idx(LastEvent.d, Radius(LastEvent)) = {}
          /\ \A i \in Nodes : z[i] = FAdd(Before[i], Delta(LastEvent, Before, i))

\* a rimmed crater that returned, with nodes inside and outside, and a
\* finite field changed at every node
C12_Witness ==
    /\ Called /\ LastEvent.rim /\ err = "none"
    /\ in_idx(LastEvent.d, Radius(LastEvent)) # {}
    /\ out_idx(LastEvent.d, Radius(LastEvent)) # {}
    /\ Finite(z)
    /\ \A i \in Nodes : z[i] # Before[i]

====
